---- MODULE Spec2Model ----
(***************************************************************************)
(* Model of the PrixMalin aggregation engine: the search coordinator       *)
(* (backend/services/search.py), its TTL cache (backend/database.py) and   *)
(* the relevance filter.                                                   *)
(*                                                                         *)
(* Text is a sequence of characters; a character is a one-letter string,   *)
(* except the accented letters, written "e_acute", "E_ACUTE", ... and the  *)
(* combining marks NFKD produces, written "comb_acute", ...                *)
(***************************************************************************)
EXTENDS Integers, Sequences, FiniteSets, TLC

(***************************************************************************)
(* Characters                                                              *)
(***************************************************************************)
LowerSeq ==
    << "a", "b", "c", "d", "e", "f", "g", "h", "i", "j", "k", "l", "m",
       "n", "o", "p", "q", "r", "s", "t", "u", "v", "w", "x", "y", "z",
       "e_acute", "e_grave", "a_grave", "i_circ" >>

UpperSeq ==
    << "A", "B", "C", "D", "E", "F", "G", "H", "I", "J", "K", "L", "M",
       "N", "O", "P", "Q", "R", "S", "T", "U", "V", "W", "X", "Y", "Z",
       "E_ACUTE", "E_GRAVE", "A_GRAVE", "I_CIRC" >>

AsciiLower == {LowerSeq[i] : i \in 1..26}

Letters == {LowerSeq[i] : i \in 1..Len(LowerSeq)} \cup {UpperSeq[i] : i \in 1..Len(UpperSeq)}

CombiningMarks == {"comb_acute", "comb_grave", "comb_circ"}

Digits == {"0", "1", "2", "3", "4", "5", "6", "7", "8", "9"}

Whitespace == {" "}

UpperLetters == {UpperSeq[i] : i \in 1..Len(UpperSeq)}

LowerOf == [c \in UpperLetters |-> LowerSeq[CHOOSE i \in 1..Len(UpperSeq) : UpperSeq[i] = c]]

\* str.lower() on one character
LowerChar(c) == IF c \in UpperLetters THEN LowerOf[c] ELSE c

\* unicodedata.normalize("NFKD", c) on one character
Nfkd(c) ==
    CASE c = "e_acute" -> <<"e", "comb_acute">>
      [] c = "e_grave" -> <<"e", "comb_grave">>
      [] c = "a_grave" -> <<"a", "comb_grave">>
      [] c = "E_ACUTE" -> <<"E", "comb_acute">>
      [] c = "E_GRAVE" -> <<"E", "comb_grave">>
      [] c = "A_GRAVE" -> <<"A", "comb_grave">>
      [] c = "i_circ"  -> <<"i", "comb_circ">>
      [] c = "I_CIRC"  -> <<"I", "comb_circ">>
      [] OTHER -> <<c>>

\* unicodedata.combining(c) # 0
Combining(c) == c \in CombiningMarks

\* the regular expression class [a-z]
IsAsciiLower(c) == c \in AsciiLower

\* the regular expression class \w (str patterns: letters, digits, underscore)
IsWordChar(c) == c \in Letters \cup Digits \cup {"_"}

RECURSIVE FlatMap(_, _)
FlatMap(F(_), s) == IF s = <<>> THEN <<>> ELSE F(Head(s)) \o FlatMap(F, Tail(s))

MapSeq(F(_), s) == [i \in 1..Len(s) |-> F(s[i])]

\* str.lower()
StrLower(s) == MapSeq(LowerChar, s)

RECURSIVE LStrip(_)
LStrip(s) == IF s # <<>> /\ Head(s) \in Whitespace THEN LStrip(Tail(s)) ELSE s

RECURSIVE RStrip(_)
RStrip(s) ==
    IF s # <<>> /\ s[Len(s)] \in Whitespace THEN RStrip(SubSeq(s, 1, Len(s) - 1)) ELSE s

\* str.strip()
StrStrip(s) == RStrip(LStrip(s))

\* "needle in hay" on strings
Contains(hay, needle) ==
    \E i \in 1..(Len(hay) - Len(needle) + 1) :
        SubSeq(hay, i, i + Len(needle) - 1) = needle

(***************************************************************************)
(* Relevance filter                                                        *)
(***************************************************************************)
_STOP_WORDS ==
    { <<"d", "e">>, <<"d", "u">>, <<"d", "e", "s">>, <<"l", "e">>, <<"l", "a">>,
      <<"l", "e", "s">>, <<"u", "n">>, <<"u", "n", "e">>, <<"a", "u">>,
      <<"a", "u", "x">>, <<"e", "t">>, <<"o", "u">>, <<"e", "n">>, <<"a">>,
      <<"a_grave">> }

DropCombining(c) == IF Combining(c) THEN <<>> ELSE <<c>>

\* faulty variant: the combining marks are left in
_normalize_keep_marks(text) == FlatMap(Nfkd, StrLower(text))

_normalize(text) == FlatMap(DropCombining, FlatMap(Nfkd, StrLower(text)))

\* re.findall(r"[a-z]+", s): the maximal runs of [a-z], left to right
RECURSIVE FindAllLower(_, _)
FindAllLower(s, run) ==
    IF s = <<>> THEN (IF run = <<>> THEN <<>> ELSE <<run>>)
    ELSE IF IsAsciiLower(Head(s)) THEN FindAllLower(Tail(s), Append(run, Head(s)))
    ELSE (IF run = <<>> THEN <<>> ELSE <<run>>) \o FindAllLower(Tail(s), <<>>)

\* faulty variant: stop words are kept
_extract_words_keep_stop(text) ==
    SelectSeq(FindAllLower(_normalize(text), <<>>), LAMBDA w : Len(w) > 1)

_extract_words(text) ==
    SelectSeq(FindAllLower(_normalize(text), <<>>),
              LAMBDA w : w \notin _STOP_WORDS /\ Len(w) > 1)

\* is position p (between s[p-1] and s[p]) a \b word boundary of s
WordBoundary(s, p) ==
    LET before == p > 1 /\ IsWordChar(s[p - 1])
        after  == p <= Len(s) /\ IsWordChar(s[p])
    IN  before # after

\* faulty variant: a substring match
WholeWordSearchSubstring(kw, s) == Contains(s, kw)

\* re.search(r"\b" + re.escape(kw) + r"\b", s) is not None
WholeWordSearch(kw, s) ==
    \E i \in 1..(Len(s) - Len(kw) + 1) :
        /\ SubSeq(s, i, i + Len(kw) - 1) = kw
        /\ WordBoundary(s, i)
        /\ WordBoundary(s, i + Len(kw))

_MIN_RELEVANCE_NUM == 1

_MIN_RELEVANCE_DEN == 2

SeqCount(s, P(_)) == Cardinality({i \in 1..Len(s) : P(s[i])})

\* faulty variant: a product word counts only when it contains a keyword, and
\* a coverage of exactly _MIN_RELEVANCE is low
LowCoverageStrict(product_words, keywords) ==
    LET matched == SeqCount(product_words,
                     LAMBDA pw : \E k \in 1..Len(keywords) : Contains(pw, keywords[k]))
    IN  matched * _MIN_RELEVANCE_DEN <= _MIN_RELEVANCE_NUM * Len(product_words)

\* matched / len(product_words) < _MIN_RELEVANCE
LowCoverage(product_words, keywords) ==
    LET matched == SeqCount(product_words,
                     LAMBDA pw : \E k \in 1..Len(keywords) :
                        Contains(pw, keywords[k]) \/ Contains(keywords[k], pw))
    IN  matched * _MIN_RELEVANCE_DEN < _MIN_RELEVANCE_NUM * Len(product_words)

_is_relevant(product, query) ==
    LET norm_name == _normalize(product.name)
        keywords  == _extract_words(query)
    IN  IF keywords = <<>> THEN TRUE
        ELSE IF ~ \A k \in 1..Len(keywords) : WholeWordSearch(keywords[k], norm_name)
        THEN FALSE
        ELSE IF Len(keywords) >= 2
                /\ _extract_words(product.name) # <<>>
                /\ LowCoverage(_extract_words(product.name), keywords)
        THEN FALSE
        ELSE TRUE

(***************************************************************************)
(* Products and their JSON form                                            *)
(***************************************************************************)
\* an Optional value is <<>> (None) or <<v>>
None == <<>>

Some(v) == <<v>>

\* ScrapedProduct; price is Optional, in cents
ScrapedProduct(name, price, product_url, store_name) ==
    [name |-> name, price |-> price, product_url |-> product_url, store_name |-> store_name]

DigitSeq == <<"0", "1", "2", "3", "4", "5", "6", "7", "8", "9">>

RECURSIVE IntToStr(_)
IntToStr(n) ==
    IF n < 10 THEN <<DigitSeq[n + 1]>>
    ELSE IntToStr(n \div 10) \o <<DigitSeq[(n % 10) + 1]>>

DigitValue(c) == (CHOOSE i \in 1..10 : DigitSeq[i] = c) - 1

RECURSIVE StrToInt(_)
StrToInt(s) ==
    IF Len(s) = 1 THEN DigitValue(s[1])
    ELSE 10 * StrToInt(SubSeq(s, 1, Len(s) - 1)) + DigitValue(s[Len(s)])

\* a JSON text is a sequence of tokens
JsonPunct(c) == [kind |-> "punct", text |-> <<c>>]

JsonString(s) == [kind |-> "string", text |-> s]

JsonNumber(n) == [kind |-> "number", text |-> IntToStr(n)]

JsonNull == [kind |-> "null", text |-> <<"n", "u", "l", "l">>]

JsonOptNumber(v) == IF v = None THEN JsonNull ELSE JsonNumber(v[1])

\* json.dumps of one p.model_dump()
JsonDumpProduct(p) ==
    << JsonPunct("{"), JsonString(p.name), JsonOptNumber(p.price),
       JsonString(p.product_url), JsonString(p.store_name), JsonPunct("}") >>

\* json.dumps([p.model_dump() for p in results])
JsonDumps(results) == <<JsonPunct("[")>> \o FlatMap(JsonDumpProduct, results) \o <<JsonPunct("]")>>

JsonObjectLen == 6

IsJsonNumber(t) ==
    t.kind = "number" /\ t.text # <<>> /\ \A i \in 1..Len(t.text) : t.text[i] \in Digits

JsonObjectOk(o) ==
    /\ o[1] = JsonPunct("{") /\ o[6] = JsonPunct("}")
    /\ o[2].kind = "string" /\ o[4].kind = "string" /\ o[5].kind = "string"
    /\ (o[3] = JsonNull \/ IsJsonNumber(o[3]))

JsonLoadProduct(o) ==
    ScrapedProduct(o[2].text,
                   IF o[3] = JsonNull THEN None ELSE Some(StrToInt(o[3].text)),
                   o[4].text, o[5].text)

JsonBody(text) == SubSeq(text, 2, Len(text) - 1)

JsonObjectAt(text, k) == SubSeq(JsonBody(text), (k - 1) * JsonObjectLen + 1, k * JsonObjectLen)

\* does json.loads(text) followed by ScrapedProduct(**p) succeed
JsonDecodable(text) ==
    /\ Len(text) >= 2
    /\ text[1] = JsonPunct("[") /\ text[Len(text)] = JsonPunct("]")
    /\ Len(JsonBody(text)) % JsonObjectLen = 0
    /\ \A k \in 1..(Len(JsonBody(text)) \div JsonObjectLen) : JsonObjectOk(JsonObjectAt(text, k))

\* [ScrapedProduct(**p) for p in json.loads(text)]
JsonLoads(text) ==
    [k \in 1..(Len(JsonBody(text)) \div JsonObjectLen) |-> JsonLoadProduct(JsonObjectAt(text, k))]

(***************************************************************************)
(* Configuration and registry                                              *)
(***************************************************************************)
CACHE_TTL_SECONDS == 6 * 60 * 60

\* SCRAPERS, in registration order: the registry key and the scraper's store_name
SCRAPERS ==
    << [key |-> <<"a", "l", "d", "i">>, store_name |-> <<"A", "l", "d", "i">>],
       [key |-> <<"c", "a", "r", "r", "e", "f", "o", "u", "r">>, store_name |-> <<"C", "a", "r", "r", "e", "f", "o", "u", "r">>],
       [key |-> <<"c", "o", "u", "r", "s", "e", "s", "u">>, store_name |-> <<"C", "o", "u", "r", "s", "e", "s", " ", "U">>],
       [key |-> <<"i", "n", "t", "e", "r", "m", "a", "r", "c", "h", "e">>, store_name |-> <<"I", "n", "t", "e", "r", "m", "a", "r", "c", "h", "e_acute">>] >>

RegistryKeys == [i \in 1..Len(SCRAPERS) |-> SCRAPERS[i].key]

InRegistry(key) == \E i \in 1..Len(SCRAPERS) : SCRAPERS[i].key = key

Scraper(key) == SCRAPERS[CHOOSE i \in 1..Len(SCRAPERS) : SCRAPERS[i].key = key]

(***************************************************************************)
(* Bounds and inputs                                                       *)
(***************************************************************************)
MaxCalls == 2

MaxPeriods == 1

MaxSkew == 1

\* the instants the clock is observed at: around the multiples of the TTL
Times == {e * CACHE_TTL_SECONDS + k : e \in 0..MaxPeriods, k \in 0..MaxSkew}

Calls == 1..MaxCalls

\* the (query, stores) arguments of search_all; stores is Optional
SearchArgs(query, stores) == [query |-> query, stores |-> stores]

SearchInputs ==
    { SearchArgs(<<"R", "i", "z", " ">>, None),
      SearchArgs(<<"r", "i", "z">>, Some(<<>>)),
      SearchArgs(<<"r", "i", "z">>, Some(<< <<"n", "o", "p", "e">> >>)),
      SearchArgs(<<"R", "i", "z", " ">>, Some(<< <<"A", "L", "D", "I">>, <<"n", "o", "p", "e">> >>)),
      SearchArgs(<<"r", "i", "z">>, Some(<< <<"c", "a", "r", "r", "e", "f", "o", "u", "r">>, <<"a", "l", "d", "i">>, <<"C", "a", "r", "r", "e", "f", "o", "u", "r">> >>)) }

\* the arguments of concurrent request c: the first spells the query and the
\* store differently from the later ones, which ask one store each
PairInputs(c) ==
    IF c = 1
    THEN { SearchArgs(<<"R", "i", "z", " ">>, Some(<< <<"A", "L", "D", "I">>, <<"n", "o", "p", "e">> >>)) }
    ELSE { SearchArgs(<<"r", "i", "z">>, Some(<< <<"a", "l", "d", "i">> >>)),
           SearchArgs(<<"r", "i", "z">>, Some(<< <<"c", "a", "r", "r", "e", "f", "o", "u", "r">> >>)) }

MaxClients == 2

\* concurrent callers of get_db, and connections opened in one run
MaxDbCalls == 2

MaxConnections == 3

DbCallers == 1..MaxDbCalls

\* the two operations of the configuration service
ConfigOps == {"set_postal_code", "set_store_config"}

Clients == 1..MaxClients

\* the arguments of direct set_cached_results / get_cached_results calls
PutQueries == { <<"R", "i", "z", " ">>, <<"l", "a", "i", "t">> }

PutStores == { <<"a", "l", "d", "i">> }

PutLists ==
    { <<>>,
      << ScrapedProduct(<<"R", "i", "z">>, None, <<"a", "1">>, <<"A", "l", "d", "i">>),
         ScrapedProduct(<<"R", "i", "z", " ", "l", "o", "n", "g">>, Some(12), <<"a", "2">>, <<"A", "l", "d", "i">>) >> }

GetQueries == { <<" ", "R", "I", "Z">>, <<"l", "a", "i", "t">> }

GetStores == { <<"a", "l", "d", "i">>, <<"c", "a", "r", "r", "e", "f", "o", "u", "r">> }

\* the lists scraper.search can return, per registry key
SearchResults(key) ==
    CASE key = <<"a", "l", "d", "i">> ->
           { <<>>,
             << ScrapedProduct(<<"R", "i", "z">>, None, <<"a", "1">>, <<"A", "l", "d", "i">>),
                ScrapedProduct(<<"L", "a", "i", "t">>, Some(1), <<"a", "3">>, <<"A", "l", "d", "i">>),
                ScrapedProduct(<<"R", "i", "z", " ", "l", "o", "n", "g">>, Some(2), <<"a", "2">>, <<"A", "l", "d", "i">>) >> }
      [] key = <<"c", "a", "r", "r", "e", "f", "o", "u", "r">> ->
           { << ScrapedProduct(<<"R", "i", "z">>, Some(2), <<"c", "1">>, <<"C", "a", "r", "r", "e", "f", "o", "u", "r">>),
                ScrapedProduct(<<"L", "a", "i", "t">>, Some(1), <<"c", "2">>, <<"C", "a", "r", "r", "e", "f", "o", "u", "r">>) >> }
      [] key = <<"c", "o", "u", "r", "s", "e", "s", "u">> ->
           { << ScrapedProduct(<<"r", "i", "z">>, Some(0), <<"u", "1">>, <<"C", "o", "u", "r", "s", "e", "s", " ", "U">>) >> }
      [] OTHER ->
           { << ScrapedProduct(<<"R", "i", "z">>, None, <<"i", "1">>, <<"I", "n", "t", "e", "r", "m", "a", "r", "c", "h", "e_acute">>) >> }

\* str(e) of the exceptions scraper.search and the database can raise
SearchErrorDetails == { <<"b", "o", "o", "m">> }

DbErrorDetails == { <<"l", "o", "c", "k", "e", "d">> }

TimeoutDetail == <<"t", "i", "m", "e", "o", "u", "t">>

NoValidStores == << <<"N", "o", " ", "v", "a", "l", "i", "d", " ", "s", "t", "o", "r", "e", "s", " ", "s", "e", "l", "e", "c", "t", "e", "d">> >>

\* a stored payload that json.loads rejects
CorruptJson == << JsonPunct("["), JsonPunct("{") >>

\* the contents of the database file when the process starts
InitialCaches ==
    { {},
      { [query |-> <<"r", "i", "z">>, store |-> <<"a", "l", "d", "i">>, created_at |-> 0,
         results_json |-> JsonDumps(<< ScrapedProduct(<<"R", "i", "z", " ", "l", "o", "n", "g">>, Some(2), <<"a", "2">>, <<"A", "l", "d", "i">>) >>)],
        [query |-> <<"r", "i", "z">>, store |-> <<"c", "a", "r", "r", "e", "f", "o", "u", "r">>, created_at |-> 0,
         results_json |-> CorruptJson] } }

(***************************************************************************)
(* The merge step on its own: one source, any list                         *)
(***************************************************************************)
NameHuileTournesol == <<"H", "u", "i", "l", "e", " ", "d", "e", " ", "t", "o", "u", "r", "n", "e", "s", "o", "l", " ", "B", "e", "l", "l", "a", "s", "a", "n">>

NameHuileOlive == <<"H", "u", "i", "l", "e", " ", "d", "'", "o", "l", "i", "v", "e">>

NameLait == <<"L", "a", "i", "t", " ", "d", "e", "m", "i", "-", "e_acute", "c", "r", "e_acute", "m", "e_acute">>

NameThon == <<"T", "h", "o", "n", " ", "a_grave", " ", "l", "'", "h", "u", "i", "l", "e", " ", "d", "e", " ", "t", "o", "u", "r", "n", "e", "s", "o", "l">>

NameGateau == <<"g", "a", "t", "e", "a", "u">>

NameEau == <<"E", "a", "u">>

NameCreme == <<"C", "r", "e_grave", "m", "e", " ", "f", "r", "a", "i_circ", "c", "h", "e", " ", "e_acute", "p", "a", "i", "s", "s", "e">>

NameEtagere == <<"E_ACUTE", "t", "a", "g", "e_grave", "r", "e">>

NameEtagerePlain == <<"e", "t", "a", "g", "e", "r", "e">>

NameAnything == <<"A", "n", "y", "t", "h", "i", "n", "g">>

\* names in which "huile" and "tournesol" are whole words among other words
NameThonBlanc == <<"T", "h", "o", "n", " ", "b", "l", "a", "n", "c", " ", "h", "u", "i", "l", "e", " ", "t", "o", "u", "r", "n", "e", "s", "o", "l">>

NameThonEntier == <<"T", "h", "o", "n", " ", "b", "l", "a", "n", "c", " ", "e", "n", "t", "i", "e", "r", " ", "h", "u", "i", "l", "e", " ", "t", "o", "u", "r", "n", "e", "s", "o", "l">>

NameThonSol == <<"T", "h", "o", "n", " ", "b", "l", "a", "n", "c", " ", "s", "o", "l", " ", "h", "u", "i", "l", "e", " ", "t", "o", "u", "r", "n", "e", "s", "o", "l">>

MergeNames ==
    { NameHuileTournesol,
      NameHuileOlive,
      NameLait,
      NameThon,
      NameGateau,
      NameEau,
      NameCreme,
      NameEtagere,
      NameEtagerePlain,
      NameAnything,
      NameThonBlanc,
      NameThonEntier,
      NameThonSol }

QueryHuileTournesol == <<"h", "u", "i", "l", "e", " ", "t", "o", "u", "r", "n", "e", "s", "o", "l">>

QueryEau == <<"e", "a", "u">>

QueryStopWords == <<"d", "e", " ", "l", "a">>

QueryNoLetters == <<"a", " ", "1">>

QueryCreme == <<"c", "r", "e", "m", "e", " ", "f", "r", "a", "i", "c", "h", "e">>

QueryCremeAccents == <<"C", "R", "E_GRAVE", "M", "E", " ", "F", "R", "A", "I_CIRC", "C", "H", "E">>

QueryEtagere == <<"e_acute", "t", "a", "g", "e_grave", "r", "e">>

QueryRiz == <<"r", "i", "z">>

QueryThon == <<"t", "h", "o", "n">>

FilterQueries ==
    { QueryHuileTournesol,
      QueryEau,
      QueryStopWords,
      QueryNoLetters,
      QueryCreme,
      QueryCremeAccents,
      QueryEtagere,
      QueryThon }


MaxNames == 2

MaxPrices == 4

\* the sequences over S of length at most n
SeqsUpTo(S, n) == UNION {[1..k -> S] : k \in 0..n}

\* the product_url of the product a source lists at position j
PositionUrl(j) == <<"p">> \o IntToStr(j)

AldiProducts(entries) ==
    [j \in 1..Len(entries) |->
        ScrapedProduct(entries[j].name, entries[j].price, PositionUrl(j), <<"A", "l", "d", "i">>)]

\* the lists a source can return for a query of FilterQueries
FilterLists ==
    { AldiProducts([j \in 1..Len(ns) |-> [name |-> ns[j], price |-> None]]) :
        ns \in SeqsUpTo(MergeNames, MaxNames) }

PricePool ==
    { [name |-> <<"R", "i", "z">>, price |-> None],
      [name |-> <<"R", "i", "z">>, price |-> Some(0)],
      [name |-> <<"R", "i", "z">>, price |-> Some(120)],
      [name |-> <<"R", "i", "z">>, price |-> Some(250)],
      [name |-> <<"L", "a", "i", "t">>, price |-> Some(50)] }

\* the lists a source can return for QueryRiz
SortLists == { AldiProducts(es) : es \in SeqsUpTo(PricePool, MaxPrices) }

MergeResults(query) == IF query = QueryRiz THEN SortLists ELSE FilterLists

MergeInputs ==
    { SearchArgs(q, Some(<< <<"a", "l", "d", "i">> >>)) : q \in FilterQueries \cup {QueryRiz} }

(***************************************************************************)
(* State                                                                   *)
(***************************************************************************)
VARIABLES
    now,            \* time.time()
    search_cache,   \* the rows of table search_cache
    calls,          \* the search_all invocations
    tasks,          \* the _run_scraper tasks of each invocation
    clients,        \* direct get_cached_results calls in progress
    last_get,       \* the value get_cached_results returned in the step just taken
    last_put,       \* the direct set_cached_results call since the clock last moved
    _db,            \* database.py line 8: the module's connection, Optional
    connections,    \* the connections aiosqlite.connect has returned
    db_calls,       \* the get_db calls in progress
    db_close,       \* the close_db call in progress
    app_config,     \* the value of row "app_config" of table app_config, Optional
    config_calls    \* the set_postal_code / set_store_config calls in progress

\* the state of get_db / close_db
dbvars == <<_db, connections, db_calls, db_close>>

\* the state of the configuration service
cfgvars == <<app_config, config_calls>>

vars == <<now, search_cache, calls, tasks, clients, last_get, last_put, dbvars, cfgvars>>

(***************************************************************************)
(* Cache store (database.py)                                               *)
(***************************************************************************)
\* faulty variant: the key is lowercased but not trimmed
CacheKeyNoStrip(query) == StrLower(query)

\* query.lower().strip()
CacheKey(query) == StrStrip(StrLower(query))

\* SELECT ... WHERE query = ? AND store = ?
SelectRows(table, query, store) ==
    {r \in table : r.query = CacheKey(query) /\ r.store = store}

\* faulty variant: the row of the key is left in place
DeleteNothing(table, query, store) == table

\* DELETE FROM search_cache WHERE query = ? AND store = ?
DeleteRows(table, query, store) == table \ SelectRows(table, query, store)

\* faulty variant: a plain INSERT without the uniqueness constraint
InsertOnly(table, query, store, results, t) ==
    table \cup { [query |-> CacheKey(query), store |-> store,
                  results_json |-> JsonDumps(results), created_at |-> t] }

\* INSERT OR REPLACE under UNIQUE(query, store)
InsertOrReplace(table, query, store, results, t) ==
    DeleteRows(table, query, store)
        \cup { [query |-> CacheKey(query), store |-> store,
                results_json |-> JsonDumps(results), created_at |-> t] }

\* faulty variant: an entry of age exactly the TTL is already stale
IsStaleInclusive(row, t) == t - row.created_at >= CACHE_TTL_SECONDS

\* time.time() - row["created_at"] > CACHE_TTL_SECONDS
IsStale(row, t) == t - row.created_at > CACHE_TTL_SECONDS

\* faulty variant: a stored empty list counts as no entry
RowOutcomeFalsy(row, t) ==
    IF IsStale(row, t) THEN [kind |-> "stale", results |-> <<>>]
    ELSE IF ~ JsonDecodable(row.results_json) THEN [kind |-> "decode_error", results |-> <<>>]
    ELSE IF JsonLoads(row.results_json) = <<>> THEN [kind |-> "miss", results |-> <<>>]
    ELSE [kind |-> "hit", results |-> JsonLoads(row.results_json)]

\* what get_cached_results does with the row fetchone() gave it at time t
RowOutcome(row, t) ==
    IF IsStale(row, t) THEN [kind |-> "stale", results |-> <<>>]
    ELSE IF JsonDecodable(row.results_json)
    THEN [kind |-> "hit", results |-> JsonLoads(row.results_json)]
    ELSE [kind |-> "decode_error", results |-> <<>>]

\* get_cached_results lines 49-56 and 63: the SELECT, fetchone and the TTL test
GetOutcomes(table, query, store, t) ==
    IF SelectRows(table, query, store) = {}
    THEN {[kind |-> "miss", results |-> <<>>]}
    ELSE {RowOutcome(row, t) : row \in SelectRows(table, query, store)}

(***************************************************************************)
(* Coordinator (services/search.py)                                        *)
(***************************************************************************)
FormatError(store_name, detail) == store_name \o <<":", " ">> \o detail

\* the keys of scrapers_to_run, in dict insertion order
RECURSIVE SelectScrapers(_, _)
SelectScrapers(stores, acc) ==
    IF stores = <<>> THEN acc
    ELSE LET key == StrLower(Head(stores))
         IN  SelectScrapers(Tail(stores),
                IF InRegistry(key) /\ ~ \E i \in 1..Len(acc) : acc[i] = key
                THEN Append(acc, key) ELSE acc)

\* faulty variant: an empty selection falls back to the whole registry
ScrapersToRunFallback(stores) ==
    IF stores # None /\ stores[1] # <<>> /\ SelectScrapers(stores[1], <<>>) # <<>>
    THEN SelectScrapers(stores[1], <<>>)
    ELSE RegistryKeys

\* "if stores:" is false for None and for the empty list
ScrapersToRun(stores) ==
    IF stores # None /\ stores[1] # <<>> THEN SelectScrapers(stores[1], <<>>)
    ELSE RegistryKeys

SearchResponse(query, results, errors) ==
    [query |-> query, results |-> results, errors |-> errors]

NoResponse == SearchResponse(<<>>, <<>>, <<>>)

IdleCall ==
    [status |-> "idle", query |-> <<>>, stores |-> None, scrapers_to_run |-> <<>>,
     response |-> NoResponse]

\* a _run_scraper coroutine: pc is the await it is suspended at; results and
\* error are its return value; fetched is what scraper.search returned;
\* failed_inside records that the source caught an error of its own
NewTask(key) ==
    [key |-> key, pc |-> "cache_get", results |-> <<>>, error |-> None,
     fetched |-> None, outcome |-> "running", failed_inside |-> FALSE]

\* faulty variant: the key (not p.price, p.price or 0), a price of 0 sorts last
SortKeyFalsy(p) ==
    IF p.price = None \/ p.price[1] = 0 THEN <<1, 0>> ELSE <<0, p.price[1]>>

\* sort key (p.price is None, p.price or 0)
SortKey(p) == IF p.price = None THEN <<1, 0>> ELSE <<0, p.price[1]>>

KeyLess(a, b) == a[1] < b[1] \/ (a[1] = b[1] /\ a[2] < b[2])

RECURSIVE SortedInsert(_, _)
SortedInsert(sorted, p) ==
    IF sorted = <<>> THEN <<p>>
    ELSE IF KeyLess(SortKey(p), SortKey(Head(sorted))) THEN <<p>> \o sorted
    ELSE <<Head(sorted)>> \o SortedInsert(Tail(sorted), p)

\* list.sort(key=...): stable
RECURSIVE StableSort(_)
StableSort(s) ==
    IF s = <<>> THEN <<>>
    ELSE SortedInsert(StableSort(SubSeq(s, 1, Len(s) - 1)), s[Len(s)])

RECURSIVE ConcatResults(_)
ConcatResults(outcomes) ==
    IF outcomes = <<>> THEN <<>> ELSE Head(outcomes).results \o ConcatResults(Tail(outcomes))

RECURSIVE CollectErrors(_)
CollectErrors(outcomes) ==
    IF outcomes = <<>> THEN <<>>
    ELSE (IF Head(outcomes).error # None /\ Head(outcomes).error[1] # <<>>
          THEN <<Head(outcomes).error[1]>> ELSE <<>>)
         \o CollectErrors(Tail(outcomes))

\* faulty variant: the merged list is sorted without being filtered
MergeOutcomesUnfiltered(query, outcomes) ==
    SearchResponse(query, StableSort(ConcatResults(outcomes)), CollectErrors(outcomes))

\* lines 137-154: merge, filter, sort
MergeOutcomes(query, outcomes) ==
    SearchResponse(query,
        StableSort(SelectSeq(ConcatResults(outcomes), LAMBDA p : _is_relevant(p, query))),
        CollectErrors(outcomes))

(***************************************************************************)
(* Actions                                                                 *)
(***************************************************************************)
IdleClient == [pc |-> "idle", query |-> <<>>, store |-> <<>>]

\* (query, store, returned value, time of the call); the value is Optional
GetReturn(query, store, result, t) ==
    [query |-> query, store |-> store, result |-> result, at |-> t]

NoGet == GetReturn(<<>>, <<>>, None, 0)

\* (query, store, did a row exist for the key)
PutCall(query, store, replaced) == [query |-> query, store |-> store, replaced |-> replaced]

NoPut == PutCall(<<>>, <<>>, FALSE)

IdleDbCall == [pc |-> "idle", db |-> None]

\* the process has started: no connection yet
InitDb ==
    /\ _db = None
    /\ connections = <<>>
    /\ db_calls = [k \in DbCallers |-> IdleDbCall]
    /\ db_close = IdleDbCall

\* args are the arguments of the call, config its local AppConfig
IdleConfigCall == [pc |-> "idle", args |-> <<>>, config |-> None]

\* a database file without a configuration row
InitConfig ==
    /\ app_config = None
    /\ config_calls = [o \in ConfigOps |-> IdleConfigCall]

Init ==
    /\ now = 0
    /\ search_cache \in InitialCaches
    /\ calls = [c \in Calls |-> IdleCall]
    /\ tasks = [c \in Calls |-> <<>>]
    /\ clients = [k \in Clients |-> IdleClient]
    /\ last_get = NoGet
    /\ last_put = NoPut
    /\ InitDb
    /\ InitConfig

\* a fresh database file
InitEmpty ==
    /\ now = 0
    /\ search_cache = {}
    /\ calls = [c \in Calls |-> IdleCall]
    /\ tasks = [c \in Calls |-> <<>>]
    /\ clients = [k \in Clients |-> IdleClient]
    /\ last_get = NoGet
    /\ last_put = NoPut
    /\ InitDb
    /\ InitConfig

\* the clock advances
Tick ==
    /\ \E t \in Times : t > now /\ now' = t
    /\ last_get' = NoGet
    /\ last_put' = NoPut
    /\ UNCHANGED <<search_cache, calls, tasks, clients, dbvars, cfgvars>>

\* search_all, lines 122-134: resolve the working set, return at once when it is
\* empty, otherwise create one _run_scraper per scraper and await gather
SearchAllStart(c, inputs) ==
    /\ calls[c].status = "idle"
    /\ \A d \in Calls : d < c => calls[d].status # "idle"
    /\ \E args \in inputs :
         LET query == args.query
             stores == args.stores
             scrapers_to_run == ScrapersToRun(stores)
         IN  IF scrapers_to_run = <<>>
             THEN /\ calls' = [calls EXCEPT ![c] =
                        [status |-> "returned", query |-> query, stores |-> stores,
                         scrapers_to_run |-> scrapers_to_run,
                         response |-> SearchResponse(query, <<>>, NoValidStores)]]
                  /\ UNCHANGED tasks
             ELSE /\ calls' = [calls EXCEPT ![c] =
                        [status |-> "gathering", query |-> query, stores |-> stores,
                         scrapers_to_run |-> scrapers_to_run, response |-> NoResponse]]
                  /\ tasks' = [tasks EXCEPT ![c] =
                        [i \in 1..Len(scrapers_to_run) |-> NewTask(scrapers_to_run[i])]]
    /\ UNCHANGED <<now, search_cache, clients, last_get, last_put, dbvars, cfgvars>>

\* faulty variant: the store key is cut down to its first letter
StoreKeyInitial(key) == SubSeq(StrLower(Scraper(key).store_name), 1, 1)

\* line 91
StoreKey(key) == StrLower(Scraper(key).store_name)

TaskAt(c, i, pc) == i \in 1..Len(tasks[c]) /\ tasks[c][i].pc = pc

SetTask(c, i, t) == tasks' = [tasks EXCEPT ![c][i] = t]

\* faulty variant: a hit renews the created_at of the entry it serves
RunScraperCacheGetRenews(c, i) ==
    /\ TaskAt(c, i, "cache_get")
    /\ \E o \in GetOutcomes(search_cache, calls[c].query, StoreKey(tasks[c][i].key), now) :
         /\ SetTask(c, i,
              CASE o.kind = "miss"  -> [tasks[c][i] EXCEPT !.pc = "search"]
                [] o.kind = "stale" -> [tasks[c][i] EXCEPT !.pc = "cache_del"]
                [] o.kind = "hit"   -> [tasks[c][i] EXCEPT !.pc = "returned", !.outcome = "hit",
                                                           !.results = o.results]
                [] OTHER -> [tasks[c][i] EXCEPT !.pc = "raised", !.outcome = "decode_error"])
         /\ search_cache' =
              IF o.kind = "hit"
              THEN InsertOrReplace(search_cache, calls[c].query, StoreKey(tasks[c][i].key),
                                   o.results, now)
              ELSE search_cache
    /\ UNCHANGED <<now, calls, clients, last_get, last_put, dbvars, cfgvars>>

\* _run_scraper lines 94-97 with get_cached_results up to its first return
RunScraperCacheGet(c, i) ==
    /\ TaskAt(c, i, "cache_get")
    /\ \E o \in GetOutcomes(search_cache, calls[c].query, StoreKey(tasks[c][i].key), now) :
         SetTask(c, i,
            CASE o.kind = "miss"  -> [tasks[c][i] EXCEPT !.pc = "search"]
              [] o.kind = "stale" -> [tasks[c][i] EXCEPT !.pc = "cache_del"]
              [] o.kind = "hit"   -> [tasks[c][i] EXCEPT !.pc = "returned", !.outcome = "hit",
                                                         !.results = o.results]
              [] OTHER -> [tasks[c][i] EXCEPT !.pc = "raised", !.outcome = "decode_error"])
    /\ UNCHANGED <<now, search_cache, calls, clients, last_get, last_put, dbvars, cfgvars>>

\* get_cached_results lines 57-62: the DELETE of a stale entry
RunScraperCacheDelete(c, i) ==
    /\ TaskAt(c, i, "cache_del")
    /\ search_cache' = DeleteRows(search_cache, calls[c].query, StoreKey(tasks[c][i].key))
    /\ SetTask(c, i, [tasks[c][i] EXCEPT !.pc = "search"])
    /\ UNCHANGED <<now, calls, clients, last_get, last_put, dbvars, cfgvars>>

\* a statement of get_cached_results raises a database error
RunScraperCacheGetError(c, i) ==
    /\ TaskAt(c, i, "cache_get") \/ TaskAt(c, i, "cache_del")
    /\ SetTask(c, i, [tasks[c][i] EXCEPT !.pc = "raised", !.outcome = "read_error"])
    /\ UNCHANGED <<now, search_cache, calls, clients, last_get, last_put, dbvars, cfgvars>>

\* lines 100-102: scraper.search returns one of lists within the deadline
RunScraperSearchReturns(c, i, lists) ==
    /\ TaskAt(c, i, "search")
    /\ \E results \in lists :
         SetTask(c, i, [tasks[c][i] EXCEPT !.pc = "cache_set", !.results = results,
                                           !.fetched = Some(results)])
    /\ UNCHANGED <<now, search_cache, calls, clients, last_get, last_put, dbvars, cfgvars>>

RunScraperSearchOk(c, i) ==
    /\ i \in 1..Len(tasks[c])
    /\ RunScraperSearchReturns(c, i, SearchResults(tasks[c][i].key))

\* _search_sync: page.goto (or the extraction) raises, the scraper's own
\* "except Exception" logs it and the products collected so far, none, are
\* returned as the result of search
RunScraperSearchSwallowed(c, i) ==
    /\ TaskAt(c, i, "search")
    /\ SetTask(c, i, [tasks[c][i] EXCEPT !.pc = "cache_set", !.results = <<>>,
                                         !.fetched = Some(<<>>), !.failed_inside = TRUE])
    /\ UNCHANGED <<now, search_cache, calls, clients, last_get, last_put, dbvars, cfgvars>>

\* faulty variant: on expiry of the deadline an empty list is stored
RunScraperSearchTimeoutStored(c, i) ==
    /\ TaskAt(c, i, "search")
    /\ search_cache' = InsertOrReplace(search_cache, calls[c].query,
                                       StoreKey(tasks[c][i].key), <<>>, now)
    /\ SetTask(c, i, [tasks[c][i] EXCEPT !.pc = "returned", !.outcome = "timeout",
           !.error = Some(FormatError(Scraper(tasks[c][i].key).store_name, TimeoutDetail))])
    /\ UNCHANGED <<now, calls, clients, last_get, last_put, dbvars, cfgvars>>

\* lines 108-111: the deadline expires
RunScraperSearchTimeout(c, i) ==
    /\ TaskAt(c, i, "search")
    /\ SetTask(c, i, [tasks[c][i] EXCEPT !.pc = "returned", !.outcome = "timeout",
           !.error = Some(FormatError(Scraper(tasks[c][i].key).store_name, TimeoutDetail))])
    /\ UNCHANGED <<now, search_cache, calls, clients, last_get, last_put, dbvars, cfgvars>>

\* lines 112-115: scraper.search raises
RunScraperSearchError(c, i) ==
    /\ TaskAt(c, i, "search")
    /\ \E detail \in SearchErrorDetails :
         SetTask(c, i, [tasks[c][i] EXCEPT !.pc = "returned", !.outcome = "search_error",
             !.error = Some(FormatError(Scraper(tasks[c][i].key).store_name, detail))])
    /\ UNCHANGED <<now, search_cache, calls, clients, last_get, last_put, dbvars, cfgvars>>

\* faulty variant: the results are returned without being stored
RunScraperCacheSetSkipped(c, i) ==
    /\ TaskAt(c, i, "cache_set")
    /\ SetTask(c, i, [tasks[c][i] EXCEPT !.pc = "returned", !.outcome = "stored"])
    /\ UNCHANGED <<now, search_cache, calls, clients, last_get, last_put, dbvars, cfgvars>>

\* lines 104-107, set_cached_results: the INSERT OR REPLACE, then return results
RunScraperCacheSet(c, i) ==
    /\ TaskAt(c, i, "cache_set")
    /\ search_cache' = InsertOrReplace(search_cache, calls[c].query,
                                       StoreKey(tasks[c][i].key), tasks[c][i].results, now)
    /\ SetTask(c, i, [tasks[c][i] EXCEPT !.pc = "returned", !.outcome = "stored"])
    /\ UNCHANGED <<now, calls, clients, last_get, last_put, dbvars, cfgvars>>

\* set_cached_results raises inside the try block: lines 112-115
RunScraperCacheSetError(c, i) ==
    /\ TaskAt(c, i, "cache_set")
    /\ \E detail \in DbErrorDetails :
         SetTask(c, i, [tasks[c][i] EXCEPT !.pc = "returned", !.outcome = "write_error",
             !.results = <<>>,
             !.error = Some(FormatError(Scraper(tasks[c][i].key).store_name, detail))])
    /\ UNCHANGED <<now, search_cache, calls, clients, last_get, last_put, dbvars, cfgvars>>

\* line 135: gather re-raises the first exception of a task
GatherRaise(c) ==
    /\ calls[c].status = "gathering"
    /\ \E i \in 1..Len(tasks[c]) : tasks[c][i].pc = "raised"
    /\ calls' = [calls EXCEPT ![c].status = "raised"]
    /\ UNCHANGED <<now, search_cache, tasks, clients, last_get, last_put, dbvars, cfgvars>>

\* lines 135-154: every task has returned; merge, filter, sort, respond
GatherReturn(c) ==
    /\ calls[c].status = "gathering"
    /\ \A i \in 1..Len(tasks[c]) : tasks[c][i].pc = "returned"
    /\ calls' = [calls EXCEPT ![c].status = "returned",
                              ![c].response = MergeOutcomes(calls[c].query, tasks[c])]
    /\ UNCHANGED <<now, search_cache, tasks, clients, last_get, last_put, dbvars, cfgvars>>

TaskStep(c, i) ==
    \/ RunScraperCacheGet(c, i)
    \/ RunScraperCacheDelete(c, i)
    \/ RunScraperCacheGetError(c, i)
    \/ RunScraperSearchOk(c, i)
    \/ RunScraperSearchTimeout(c, i)
    \/ RunScraperSearchError(c, i)
    \/ RunScraperCacheSet(c, i)
    \/ RunScraperCacheSetError(c, i)

\* set_cached_results(query, store, results) called directly
CachePut(query, store, results) ==
    /\ search_cache' = InsertOrReplace(search_cache, query, store, results, now)
    /\ last_put' = PutCall(query, store, SelectRows(search_cache, query, store) # {})
    /\ last_get' = NoGet
    /\ UNCHANGED <<now, calls, tasks, clients, dbvars, cfgvars>>

\* get_cached_results(query, store) called directly, up to its first return
CacheGetSelect(k, query, store) ==
    /\ clients[k].pc = "idle"
    /\ \E o \in GetOutcomes(search_cache, query, store, now) :
         CASE o.kind = "miss" ->
                /\ last_get' = GetReturn(query, store, None, now)
                /\ UNCHANGED clients
           [] o.kind = "stale" ->
                /\ clients' = [clients EXCEPT ![k] =
                                 [pc |-> "get_delete", query |-> query, store |-> store]]
                /\ last_get' = NoGet
           [] o.kind = "hit" ->
                /\ last_get' = GetReturn(query, store, Some(o.results), now)
                /\ UNCHANGED clients
           [] OTHER ->
                /\ clients' = [clients EXCEPT ![k] =
                                 [pc |-> "raised", query |-> query, store |-> store]]
                /\ last_get' = NoGet
    /\ UNCHANGED <<now, search_cache, calls, tasks, last_put, dbvars, cfgvars>>

\* get_cached_results lines 57-62: the DELETE of the stale entry, return None
CacheGetDelete(k) ==
    /\ clients[k].pc = "get_delete"
    /\ search_cache' = DeleteRows(search_cache, clients[k].query, clients[k].store)
    /\ last_get' = GetReturn(clients[k].query, clients[k].store, None, now)
    /\ clients' = [clients EXCEPT ![k] = IdleClient]
    /\ UNCHANGED <<now, calls, tasks, last_put, dbvars, cfgvars>>

\* one request at a time, over the whole registry
Next ==
    \/ Tick
    \/ SearchAllStart(1, SearchInputs)
    \/ \E i \in 1..Len(SCRAPERS) : TaskStep(1, i)
    \/ GatherRaise(1)
    \/ GatherReturn(1)

Spec == Init /\ [][Next]_vars

\* concurrent requests
NextPair ==
    \/ Tick
    \/ \E c \in Calls : SearchAllStart(c, PairInputs(c))
    \/ \E c \in Calls, i \in 1..Len(SCRAPERS) : TaskStep(c, i)
    \/ \E c \in Calls : GatherRaise(c)
    \/ \E c \in Calls : GatherReturn(c)

SpecPair == InitEmpty /\ [][NextPair]_vars

\* the cache store on its own: any interleaving of put and get
NextCache ==
    \/ Tick
    \/ \E q \in PutQueries, s \in PutStores, r \in PutLists : CachePut(q, s, r)
    \/ \E k \in Clients, q \in GetQueries, s \in GetStores : CacheGetSelect(k, q, s)
    \/ \E k \in Clients : CacheGetDelete(k)

SpecCache == InitEmpty /\ [][NextCache]_vars

\* requests to sources that can fail inside their own search
SourceInputs ==
    { SearchArgs(<<"r", "i", "z">>, Some(<< <<"a", "l", "d", "i">> >>)),
      SearchArgs(<<"R", "i", "z", " ">>, Some(<< <<"C", "a", "r", "r", "e", "f", "o", "u", "r">> >>)) }

SourceTaskStep(c, i) ==
    \/ TaskStep(c, i)
    \/ RunScraperSearchSwallowed(c, i)

NextSource ==
    \/ Tick
    \/ \E c \in Calls : SearchAllStart(c, SourceInputs)
    \/ \E c \in Calls, i \in 1..Len(SCRAPERS) : SourceTaskStep(c, i)
    \/ \E c \in Calls : GatherRaise(c)
    \/ \E c \in Calls : GatherReturn(c)

SpecSource == InitEmpty /\ [][NextSource]_vars

\* one request to one source that answers; the merge, filter and sort of its list
NextMerge ==
    \/ SearchAllStart(1, MergeInputs)
    \/ RunScraperCacheGet(1, 1)
    \/ RunScraperSearchReturns(1, 1, MergeResults(calls[1].query))
    \/ RunScraperCacheSet(1, 1)
    \/ GatherReturn(1)

SpecMerge == InitEmpty /\ [][NextMerge]_vars

(***************************************************************************)
(* Properties                                                              *)
(***************************************************************************)
Ended(c) == calls[c].status \in {"returned", "raised"}

Terminal(t) == t.pc \in {"returned", "raised"}

InSeq(x, s) == \E i \in 1..Len(s) : s[i] = x

\* the requested keys, lowercased, that the registry knows
ValidKeys(stores) ==
    {StrLower(stores[j]) : j \in 1..Len(stores)} \cap {SCRAPERS[i].key : i \in 1..Len(SCRAPERS)}

\* C1: whatever the sources do, search_all never raises and returns a response
\* whose results hold every relevant product of every source whose search
\* succeeded.
C1_PartialResultsNeverRaise ==
    \A c \in Calls :
        /\ calls[c].status # "raised"
        /\ calls[c].status = "returned" =>
             \A i \in 1..Len(tasks[c]) :
                tasks[c][i].fetched # None =>
                   \A j \in 1..Len(tasks[c][i].fetched[1]) :
                      _is_relevant(tasks[c][i].fetched[1][j], calls[c].query)
                         => InSeq(tasks[c][i].fetched[1][j], calls[c].response.results)

\* C2: search_all ends only after every task it launched is terminal.
C2_EndsAfterAllTasks ==
    \A c \in Calls : Ended(c) => \A i \in 1..Len(tasks[c]) : Terminal(tasks[c][i])

\* the error strings C3 expects of one task
ExpectedErrors(t) ==
    IF t.outcome = "timeout" THEN <<FormatError(Scraper(t.key).store_name, TimeoutDetail)>>
    ELSE IF t.outcome = "search_error" THEN <<t.error[1]>>
    ELSE <<>>

RECURSIVE ExpectedErrorList(_)
ExpectedErrorList(ts) ==
    IF ts = <<>> THEN <<>> ELSE ExpectedErrors(Head(ts)) \o ExpectedErrorList(Tail(ts))

\* C3: a response over a non-empty working set has exactly one error string per
\* source whose fetch timed out or failed, in working-set order, none for a
\* source that hit the cache or fetched successfully, and the failed sources
\* contribute no product.
C3_OneErrorPerFailedSource ==
    \A c \in Calls :
        (calls[c].status = "returned" /\ calls[c].scrapers_to_run # <<>>) =>
            /\ calls[c].response.errors = ExpectedErrorList(tasks[c])
            /\ \A i \in 1..Len(tasks[c]) :
                 /\ tasks[c][i].outcome \in {"timeout", "search_error"} =>
                      /\ tasks[c][i].results = <<>>
                      /\ \E d \in SearchErrorDetails \cup {TimeoutDetail} :
                           tasks[c][i].error = Some(FormatError(Scraper(tasks[c][i].key).store_name, d))
                 /\ (tasks[c][i].outcome = "hit" \/ tasks[c][i].fetched # None) =>
                      tasks[c][i].error = None

NoneRequestedIsKnown(c) ==
    /\ calls[c].status # "idle"
    /\ calls[c].stores # None
    /\ calls[c].stores[1] # <<>>
    /\ ValidKeys(calls[c].stores[1]) = {}

\* C4: when keys are requested and none of them is in the registry, search_all
\* returns results = [], errors = ["No valid stores selected"], launches no
\* task and leaves the cache as it was.
C4_NoValidStores ==
    \A c \in Calls :
        NoneRequestedIsKnown(c) =>
            /\ calls[c].status = "returned"
            /\ calls[c].response = SearchResponse(calls[c].query, <<>>, NoValidStores)
            /\ tasks[c] = <<>>
            /\ search_cache \in InitialCaches

C4_Witness ==
    \E c \in Calls :
        /\ NoneRequestedIsKnown(c)
        /\ calls[c].response.errors = NoValidStores
        /\ now > 0

\* C5: the tasks launched for a given list are exactly those of its keys that
\* the registry knows, unknown keys adding no error; only when no list is given
\* is the whole registry queried.
C5_LaunchesExactlyTheSubset ==
    \A c \in Calls :
        calls[c].status # "idle" =>
            /\ {tasks[c][i].key : i \in 1..Len(tasks[c])} =
                  IF calls[c].stores = None
                  THEN {SCRAPERS[i].key : i \in 1..Len(SCRAPERS)}
                  ELSE ValidKeys(calls[c].stores[1])
            /\ (calls[c].status = "returned" /\ tasks[c] # <<>>) =>
                  ~ InSeq(NoValidStores[1], calls[c].response.errors)

TaskIds == {<<c, i>> : c \in Calls, i \in 1..Len(SCRAPERS)}

\* two queries equal up to letter case and surrounding whitespace
SameQuery(q1, q2) == StrLower(StrStrip(q1)) = StrLower(StrStrip(q2))

AllQueries == {a.query : a \in SearchInputs \cup UNION {PairInputs(c) : c \in Calls}}

\* the rows a task's cache check addresses that are live and hold a list
LiveRows(c, i) ==
    {row \in search_cache :
        /\ row.query = CacheKey(calls[c].query)
        /\ row.store = StoreKey(tasks[c][i].key)
        /\ now - row.created_at <= CACHE_TTL_SECONDS
        /\ JsonDecodable(row.results_json)}

\* task (c, i) completes its cache read in this step
CacheChecked(c, i) ==
    /\ i \in 1..Len(tasks[c])
    /\ tasks[c][i].pc = "cache_get"
    /\ tasks'[c][i].pc # "cache_get"
    /\ tasks'[c][i].outcome # "read_error"

\* C6: a task whose cache check finds a live entry returns exactly the stored
\* list (an empty one included) with no error, without invoking the source and
\* without writing the cache, and does nothing afterwards.
C6_LiveEntryIsServed ==
    [][\A id \in TaskIds :
          LET c == id[1]
              i == id[2]
          IN  /\ CacheChecked(c, i) =>
                   \A row \in LiveRows(c, i) :
                      /\ tasks'[c][i] = [tasks[c][i] EXCEPT !.pc = "returned", !.outcome = "hit",
                                             !.results = JsonLoads(row.results_json)]
                      /\ tasks'[c][i].error = None
                      /\ tasks'[c][i].fetched = None
                      /\ search_cache' = search_cache
              /\ (i \in 1..Len(tasks[c]) /\ tasks[c][i].outcome = "hit") =>
                   /\ tasks'[c][i] = tasks[c][i]
                   /\ tasks[c][i].fetched = None
      ]_vars

C6_Witness ==
    \E id \in TaskIds :
        /\ id[2] \in 1..Len(tasks[id[1]])
        /\ tasks[id[1]][id[2]].outcome = "hit"
        /\ tasks[id[1]][id[2]].results = <<>>
        /\ Ended(id[1])

\* C7: after a miss and a successful search the task has stored the fetched list
\* under (normalized query, store) when it returns it, so that a cache check for
\* the same query up to case and surrounding whitespace, made within the TTL on
\* that entry, returns this list and the source is not invoked.
C7_FetchedListIsStored ==
    [][\A id \in TaskIds :
          LET c == id[1]
              i == id[2]
          IN  i \in 1..Len(tasks[c]) =>
              /\ (tasks[c][i].pc = "search" /\ tasks'[c][i].fetched # None) =>
                    tasks'[c][i].pc = "cache_set"
              /\ (tasks[c][i].pc # "returned" /\ tasks'[c][i].pc = "returned"
                     /\ tasks'[c][i].fetched # None /\ tasks'[c][i].error = None) =>
                    /\ tasks'[c][i].results = tasks[c][i].fetched[1]
                    /\ \A q \in AllQueries, t \in Times :
                          (SameQuery(q, calls[c].query) /\ t >= now
                              /\ t - now <= CACHE_TTL_SECONDS) =>
                             GetOutcomes(search_cache', q, StoreKey(tasks[c][i].key), t)
                                = {[kind |-> "hit", results |-> tasks[c][i].fetched[1]]}
      ]_vars

C7_Witness ==
    \E id \in TaskIds, jd \in TaskIds :
        /\ id[2] \in 1..Len(tasks[id[1]])
        /\ jd[2] \in 1..Len(tasks[jd[1]])
        /\ tasks[id[1]][id[2]].outcome = "stored"
        /\ tasks[jd[1]][jd[2]].outcome = "hit"
        /\ tasks[jd[1]][jd[2]].key = tasks[id[1]][id[2]].key
        /\ calls[jd[1]].query # calls[id[1]].query
        /\ SameQuery(calls[jd[1]].query, calls[id[1]].query)
        /\ tasks[jd[1]][jd[2]].results = tasks[id[1]][id[2]].fetched[1]
        /\ tasks[jd[1]][jd[2]].results # <<>>
        /\ now > 0

\* only a direct put leaves the clock and the clients alone and returns no get
PutStep == UNCHANGED <<now, clients>> /\ last_get' = NoGet /\ last_put' # NoPut

\* C8: right after put(q, s, products), get(q', s) returns exactly products for
\* every q' equal to q up to case and surrounding whitespace, and for any other
\* query or store get returns what it returned before the put: absent where
\* no entry was.
C8_PutGetRoundTrip ==
    [][\A q \in PutQueries, s \in PutStores, r \in PutLists :
          (PutStep /\ CachePut(q, s, r)) =>
             \A q2 \in GetQueries, s2 \in GetStores :
                IF SameQuery(q, q2) /\ s2 = s
                THEN GetOutcomes(search_cache', q2, s2, now) = {[kind |-> "hit", results |-> r]}
                ELSE /\ GetOutcomes(search_cache', q2, s2, now)
                          = GetOutcomes(search_cache, q2, s2, now)
                     /\ (\A row \in search_cache : ~ SameQuery(row.query, q2) \/ row.store # s2)
                          => GetOutcomes(search_cache', q2, s2, now)
                                = {[kind |-> "miss", results |-> <<>>]}
      ]_vars

C8_Witness ==
    /\ last_get.query = <<" ", "R", "I", "Z">>
    /\ last_get.result # None
    /\ last_get.result[1] # <<>>
    /\ last_put.query = <<"R", "i", "z", " ">>
    /\ last_get.at = now
    /\ \E row \in search_cache : row.created_at = now /\ row.query = <<"r", "i", "z">>

\* C9: get returns absent exactly when the key has no entry or the entry is
\* older than the TTL; an entry of age up to and including the TTL is returned;
\* a stale entry is deleted before absent is returned, and a put on the key
\* then succeeds and is retrievable.
C9_Expiry ==
    [][/\ (last_get' # NoGet /\ clients' = clients) =>
             LET g    == last_get'
                 rows == {row \in search_cache : SameQuery(row.query, g.query) /\ row.store = g.store}
             IN  /\ g.at = now
                 /\ rows = {} => g.result = None
                 /\ rows # {} =>
                       \E row \in rows :
                          /\ now - row.created_at <= CACHE_TTL_SECONDS
                          /\ g.result = Some(JsonLoads(row.results_json))
       /\ \A k \in Clients :
             (clients[k].pc = "idle" /\ clients'[k].pc # "idle") =>
                /\ clients'[k].pc = "get_delete"
                /\ \E row \in search_cache :
                      /\ SameQuery(row.query, clients'[k].query)
                      /\ row.store = clients'[k].store
                      /\ now - row.created_at > CACHE_TTL_SECONDS
                /\ last_get' = NoGet
                /\ UNCHANGED search_cache
       /\ \A k \in Clients :
             (clients[k].pc = "get_delete" /\ clients'[k].pc # "get_delete") =>
                /\ \A row \in search_cache' :
                      ~ (SameQuery(row.query, clients[k].query) /\ row.store = clients[k].store)
                /\ last_get' = GetReturn(clients[k].query, clients[k].store, None, now)
       /\ \A q \in PutQueries, s \in PutStores, r \in PutLists :
             (PutStep /\ CachePut(q, s, r)) =>
                GetOutcomes(search_cache', q, s, now) = {[kind |-> "hit", results |-> r]}
      ]_vars

C9_Witness ==
    /\ last_get.result # None
    /\ \E row \in search_cache :
          /\ SameQuery(row.query, last_get.query)
          /\ row.store = last_get.store
          /\ last_get.at - row.created_at = CACHE_TTL_SECONDS

OneRowPerKey(table) ==
    \A r1 \in table, r2 \in table : (r1.query = r2.query /\ r1.store = r2.store) => r1 = r2

\* C10: the cache never holds two entries for one (normalized query, store)
\* key: a put replaces the key's list and created_at and leaves every other
\* key's entry unchanged.
C10_OneEntryPerKey ==
    /\ [] OneRowPerKey(search_cache)
    /\ [][\A q \in PutQueries, s \in PutStores, r \in PutLists :
             (PutStep /\ CachePut(q, s, r)) =>
                /\ {row \in search_cache' : SameQuery(row.query, q) /\ row.store = s}
                      = {[query |-> StrLower(StrStrip(q)), store |-> s,
                          results_json |-> JsonDumps(r), created_at |-> now]}
                /\ {row \in search_cache' : ~ (SameQuery(row.query, q) /\ row.store = s)}
                      = {row \in search_cache : ~ (SameQuery(row.query, q) /\ row.store = s)}
        ]_vars

C10_Witness ==
    /\ last_put.replaced
    /\ \E row \in search_cache :
          /\ SameQuery(row.query, last_put.query)
          /\ row.store = last_put.store
          /\ row.created_at > 0
    /\ Cardinality(search_cache) = 2

\* the live rows a task's cache check addresses whose payload does not decode
CorruptLiveRows(c, i) ==
    {row \in search_cache :
        /\ row.query = CacheKey(calls[c].query)
        /\ row.store = StoreKey(tasks[c][i].key)
        /\ now - row.created_at <= CACHE_TTL_SECONDS
        /\ ~ JsonDecodable(row.results_json)}

\* C11: a cache check that meets a corrupted payload is a miss: the task goes
\* on to the source's search, no exception reaches search_all, and no task is
\* ever ended by a decode failure.
C11_CorruptPayloadIsAMiss ==
    [][\A id \in TaskIds :
          LET c == id[1]
              i == id[2]
          IN  (/\ i \in 1..Len(tasks[c])
               /\ tasks[c][i].pc = "cache_get"
               /\ tasks'[c][i].pc # "cache_get"
               /\ tasks'[c][i].outcome # "read_error"
               /\ CorruptLiveRows(c, i) # {}) =>
                  /\ tasks'[c][i].pc = "search"
                  /\ tasks'[c][i].outcome = "running"
                  /\ tasks'[c][i].error = None
      ]_vars

\* C12: a cache error is never a request failure and never costs a source its
\* products: no task is ended by a failed cache read, no call raises, and a
\* task whose source returned a list returns that list with no error, also
\* when the cache write failed.
C12_CacheErrorsAreAbsorbed ==
    \A c \in Calls :
        /\ calls[c].status # "raised"
        /\ \A i \in 1..Len(tasks[c]) :
              /\ tasks[c][i].outcome # "read_error"
              /\ (tasks[c][i].pc = "returned" /\ tasks[c][i].fetched # None) =>
                    /\ tasks[c][i].results = tasks[c][i].fetched[1]
                    /\ tasks[c][i].error = None

\* C13: a source whose search failed internally is a failed source: its task
\* returns an error, the response reports it, and nothing is stored for
\* (query, source); it never counts as a successful empty list.
C13_SourceFailureIsObserved ==
    \A c \in Calls :
        \A i \in 1..Len(tasks[c]) :
            (tasks[c][i].failed_inside /\ tasks[c][i].pc = "returned") =>
                /\ tasks[c][i].error # None
                /\ tasks[c][i].outcome # "stored"
                /\ \A row \in search_cache :
                      (/\ row.query = CacheKey(calls[c].query)
                       /\ row.store = StoreKey(tasks[c][i].key)
                       /\ JsonDecodable(row.results_json)) =>
                         JsonLoads(row.results_json) # <<>>
                /\ (calls[c].status = "returned" => calls[c].response.errors # <<>>)

HasNoPrice(p) == p.price = None

\* p comes strictly before q in the order (has_no_price, price)
Precedes(p, q) ==
    \/ ~ HasNoPrice(p) /\ HasNoPrice(q)
    \/ ~ HasNoPrice(p) /\ ~ HasNoPrice(q) /\ p.price[1] < q.price[1]

\* the position a stable sort gives the element at position j of s
StableRank(s, j) ==
    1 + Cardinality({k \in 1..Len(s) :
                        \/ Precedes(s[k], s[j])
                        \/ ~ Precedes(s[j], s[k]) /\ k < j})

\* the relevance-filtered concatenation search_all sorts
FilteredResults(c) ==
    SelectSeq(ConcatResults(tasks[c]), LAMBDA p : _is_relevant(p, calls[c].query))

\* C14: the results are the relevance-filtered list rearranged by a stable sort
\* on (has_no_price, price): same products, priced before unpriced, prices
\* non-decreasing with 0 a price like any other, equal keys in their order
\* from before the sort.
C14_StableSortByPrice ==
    \A c \in Calls :
        (calls[c].status = "returned" /\ tasks[c] # <<>>) =>
            LET in  == FilteredResults(c)
                out == calls[c].response.results
            IN  /\ Len(out) = Len(in)
                /\ \A j \in 1..Len(in) : out[StableRank(in, j)] = in[j]
                /\ \A a \in 1..Len(out), b \in 1..Len(out) :
                      a < b =>
                         /\ ~ Precedes(out[b], out[a])
                         /\ HasNoPrice(out[a]) => HasNoPrice(out[b])
                         /\ (~ HasNoPrice(out[a]) /\ ~ HasNoPrice(out[b])) =>
                               out[a].price[1] <= out[b].price[1]

C14_Witness ==
    /\ calls[1].status = "returned"
    /\ Len(tasks[1]) = 1
    /\ tasks[1][1].fetched # None
    /\ [j \in 1..Len(tasks[1][1].fetched[1]) |-> tasks[1][1].fetched[1][j].price]
          = <<None, Some(250), Some(120), None>>
    /\ [j \in 1..Len(calls[1].response.results) |-> calls[1].response.results[j].product_url]
          = <<PositionUrl(3), PositionUrl(2), PositionUrl(1), PositionUrl(4)>>
    /\ [j \in 1..Len(calls[1].response.results) |-> calls[1].response.results[j].price]
          = <<Some(120), Some(250), None, None>>

\* the position in the registry of the source whose store_name a product bears
RegistryIndex(store_name) ==
    CHOOSE i \in 1..Len(SCRAPERS) : SCRAPERS[i].store_name = store_name

\* the position of product p in the list its source's task returned
PositionInSource(c, p) ==
    CHOOSE n \in 1..Len(ConcatResults(tasks[c])) : ConcatResults(tasks[c])[n] = p

\* C15: among results with equal sort keys a product of a source registered
\* earlier precedes one of a source registered later, whatever the order of the
\* requested keys and of the tasks' completion, and the products of one source
\* keep the order the source returned them in.
C15_RegistryOrderAmongEqualKeys ==
    \A c \in Calls :
        (calls[c].status = "returned" /\ tasks[c] # <<>>) =>
            LET out == calls[c].response.results
            IN  \A a \in 1..Len(out), b \in 1..Len(out) :
                   (a < b /\ ~ Precedes(out[a], out[b]) /\ ~ Precedes(out[b], out[a])) =>
                      /\ RegistryIndex(out[a].store_name) <= RegistryIndex(out[b].store_name)
                      /\ out[a].store_name = out[b].store_name =>
                            PositionInSource(c, out[a]) <= PositionInSource(c, out[b])

\* a letter without its case and its diacritical mark
FoldChar(c) ==
    CASE c \in {"e", "E", "e_acute", "E_ACUTE", "e_grave", "E_GRAVE"} -> "e"
      [] c \in {"a", "A", "a_grave", "A_GRAVE"} -> "a"
      [] c \in {"i", "I", "i_circ", "I_CIRC"} -> "i"
      [] c \in UpperLetters -> LowerOf[c]
      [] OTHER -> c

Fold(text) == [n \in 1..Len(text) |-> FoldChar(text[n])]

\* the maximal runs of word characters of s
RECURSIVE WordRuns(_, _)
WordRuns(s, run) ==
    IF s = <<>> THEN (IF run = <<>> THEN {} ELSE {run})
    ELSE IF IsWordChar(Head(s)) THEN WordRuns(Tail(s), Append(run, Head(s)))
    ELSE (IF run = <<>> THEN {} ELSE {run}) \cup WordRuns(Tail(s), <<>>)

\* the words of a name, case and accents apart
NameWords(name) == WordRuns(Fold(name), <<>>)

\* the keywords of the queries of FilterQueries
ExpectedKeywords(q) ==
    CASE q = QueryHuileTournesol -> { <<"h", "u", "i", "l", "e">>, <<"t", "o", "u", "r", "n", "e", "s", "o", "l">> }
      [] q = QueryEau -> { <<"e", "a", "u">> }
      [] q \in {QueryCreme, QueryCremeAccents} -> { <<"c", "r", "e", "m", "e">>, <<"f", "r", "a", "i", "c", "h", "e">> }
      [] q = QueryEtagere -> { <<"e", "t", "a", "g", "e", "r", "e">> }
      [] q = QueryRiz -> { <<"r", "i", "z">> }
      [] q = QueryThon -> { <<"t", "h", "o", "n">> }
      [] OTHER -> {}

\* call c has returned the merge of what its tasks returned
Merged(c) == calls[c].status = "returned" /\ tasks[c] # <<>>

\* the product named name, listed at position j by the source, is in c's results
Kept(c, j) == InSeq(ConcatResults(tasks[c])[j], calls[c].response.results)

C17_RuleBRejectsThon ==
    \A c \in Calls :
        (Merged(c) /\ calls[c].query = QueryHuileTournesol) =>
            \A j \in 1..Len(ConcatResults(tasks[c])) :
                ConcatResults(tasks[c])[j].name = NameThon => ~ Kept(c, j)

\* C18: a query with no keyword (stop words, single letters, no letters)
\* filters nothing out: every product the sources returned is in the results.
C18_NoKeywordKeepsAll ==
    \A c \in Calls :
        (Merged(c) /\ calls[c].query \in {QueryStopWords, QueryNoLetters}) =>
            /\ Len(calls[c].response.results) = Len(ConcatResults(tasks[c]))
            /\ \A j \in 1..Len(ConcatResults(tasks[c])) : Kept(c, j)

C18_Witness ==
    /\ Merged(1)
    /\ calls[1].query = QueryStopWords
    /\ Len(calls[1].response.results) = 2
    /\ calls[1].response.results[1].name = NameAnything
    /\ calls[1].response.results[2].name = NameLait

\* C19: texts equal up to letter case and diacritical marks have the same
\* normal form ("Etagere" with or without accents gives "etagere"), and the
\* filter answers the same when the query or the product name is replaced by
\* such a variant ("creme fraiche" keeps "Creme fraiche epaisse" with accents).
C19_AccentAndCaseInsensitive ==
    \A c \in Calls :
        (Merged(c) /\ calls[c].query \in FilterQueries) =>
            \A j \in 1..Len(ConcatResults(tasks[c])) :
                LET p == ConcatResults(tasks[c])[j]
                    q == calls[c].query
                IN  /\ _normalize(p.name) = Fold(p.name)
                    /\ _normalize(q) = Fold(q)
                    /\ \A n2 \in MergeNames : Fold(n2) = Fold(p.name) => _normalize(n2) = _normalize(p.name)
                    /\ \A q2 \in FilterQueries, n2 \in MergeNames :
                          (Fold(q2) = Fold(q) /\ Fold(n2) = Fold(p.name)) =>
                             (_is_relevant([p EXCEPT !.name = n2], q2) <=> Kept(c, j))
                    /\ (q \in {QueryCreme, QueryCremeAccents} /\ p.name = NameCreme) => Kept(c, j)

C19_Witness ==
    /\ Merged(1)
    /\ calls[1].query = QueryCremeAccents
    /\ Len(ConcatResults(tasks[1])) = 2
    /\ ConcatResults(tasks[1])[1].name = NameEtagere
    /\ ConcatResults(tasks[1])[2].name = NameCreme
    /\ Len(calls[1].response.results) = 1
    /\ calls[1].response.results[1].name = NameCreme

\* the rows of table under the key task (c, i) reads and writes
KeyRows(table, c, i) ==
    {row \in table : row.query = CacheKey(calls[c].query) /\ row.store = StoreKey(tasks[c][i].key)}

\* the lists the source behind a cache row's store can return
ListsOfStore(store) ==
    UNION {SearchResults(SCRAPERS[n].key) : n \in {m \in 1..Len(SCRAPERS) : StrLower(SCRAPERS[m].store_name) = store}}

\* tasks (c, i) and (d, j) of two calls both missed, fetched and stored under one key
BothStored(c, i, d, j) ==
    /\ c # d
    /\ i \in 1..Len(tasks[c])
    /\ j \in 1..Len(tasks[d])
    /\ tasks[c][i].outcome = "stored"
    /\ tasks[d][j].outcome = "stored"
    /\ tasks[c][i].key = tasks[d][j].key
    /\ SameQuery(calls[c].query, calls[d].query)

\* no task of another call is between its cache check and its return on that key
NoThirdWriter(c, i, d) ==
    \A e \in Calls \ {c, d} :
        \A k \in 1..Len(tasks[e]) :
            (tasks[e][k].key = tasks[c][i].key /\ SameQuery(calls[e].query, calls[c].query)) =>
                tasks[e][k].pc = "cache_get" \/ tasks[e][k].outcome = "hit"

\* C20: last writer wins without locking. A put leaves exactly one entry for its
\* key, holding the complete list it was given; only a put or the delete of a
\* stale entry changes a key's entry; so when two calls have both stored under
\* one key, the key has one entry, the list of one of them, and a get at any
\* time sees no entry or one complete list a source returned.
C20_LastWriterWins ==
    /\ [] (\A row \in search_cache, other \in search_cache :
              (other.query = row.query /\ other.store = row.store) => other = row)
    /\ [][\A row \in search_cache' \ search_cache :
             /\ JsonDecodable(row.results_json)
             /\ JsonLoads(row.results_json) \in ListsOfStore(row.store)
       ]_vars
    /\ [] (\A c \in Calls, d \in Calls :
              \A i \in 1..Len(tasks[c]), j \in 1..Len(tasks[d]) :
                 (BothStored(c, i, d, j) /\ NoThirdWriter(c, i, d)) =>
                     \E row \in search_cache :
                         /\ KeyRows(search_cache, c, i) = {row}
                         /\ JsonLoads(row.results_json)
                               \in {tasks[c][i].fetched[1], tasks[d][j].fetched[1]})
    /\ [][\A c \in Calls :
             \A i \in 1..Len(tasks[c]) :
                 /\ (tasks[c][i].pc = "cache_set" /\ tasks'[c][i].outcome = "stored") =>
                       KeyRows(search_cache', c, i)
                          = {[query |-> CacheKey(calls[c].query), store |-> StoreKey(tasks[c][i].key),
                              results_json |-> JsonDumps(tasks[c][i].fetched[1]), created_at |-> now]}
                 /\ (search_cache' # search_cache
                        /\ KeyRows(search_cache', c, i) # KeyRows(search_cache, c, i)) =>
                       \E d \in Calls : \E j \in 1..Len(tasks[d]) :
                          /\ tasks[d][j].key = tasks[c][i].key
                          /\ SameQuery(calls[d].query, calls[c].query)
                          /\ \/ tasks[d][j].pc = "cache_set" /\ tasks'[d][j].outcome = "stored"
                             \/ tasks[d][j].pc = "cache_del" /\ tasks'[d][j].pc = "search"
                                   /\ KeyRows(search_cache', c, i) = {}
       ]_vars

C20_Witness ==
    \E id \in TaskIds, jd \in TaskIds :
        /\ BothStored(id[1], id[2], jd[1], jd[2])
        /\ tasks[id[1]][id[2]].fetched[1] = <<>>
        /\ tasks[jd[1]][jd[2]].fetched[1] # <<>>
        /\ calls[id[1]].query # calls[jd[1]].query
        /\ now = 0
        /\ Ended(id[1])
        /\ Ended(jd[1])
        /\ \E row \in search_cache :
              /\ KeyRows(search_cache, id[1], id[2]) = {row}
              /\ JsonLoads(row.results_json) = <<>>

(***************************************************************************)
(* Termination (search.py lines 99-111 and 134-135)                        *)
(***************************************************************************)
\* the event loop runs every task that can take a step: a database statement
\* completes or raises, scraper.search returns or raises or the deadline of
\* wait_for expires, and gather resumes search_all once its tasks have ended
Fairness ==
    /\ \A i \in 1..Len(SCRAPERS) : WF_vars(TaskStep(1, i))
    /\ WF_vars(GatherRaise(1))
    /\ WF_vars(GatherReturn(1))

SpecLive == Init /\ [][Next]_vars /\ Fairness

\* C21: every search_all call that has started its tasks eventually returns a
\* response; a deadline that expires ends its own task only, and the call
\* still returns with what the other sources supplied.
C21_EveryCallReturns ==
    (calls[1].status = "gathering") ~> (calls[1].status = "returned")

(***************************************************************************)
(* Failed fetches and the cache (search.py lines 99-115)                   *)
(***************************************************************************)
FailedFetch == {"timeout", "search_error"}

\* the step removes rows of the key of task i of call c and nothing else
RemovesOwnKeyOnly(c, i) ==
    /\ search_cache' \subseteq search_cache
    /\ \A r \in search_cache \ search_cache' :
         /\ r.query = CacheKey(calls[c].query)
         /\ r.store = StoreKey(tasks[c][i].key)

\* tasks i of call c and j of call d address the same cache key
SameCacheKey(c, i, d, j) ==
    /\ CacheKey(calls[c].query) = CacheKey(calls[d].query)
    /\ StoreKey(tasks[c][i].key) = StoreKey(tasks[d][j].key)

\* C22 as stated: a task whose fetch timed out or failed has left the cache
\* content of its key as it was; so once every task on that key has ended,
\* either having stored its list, having been served from the cache, or with
\* a fetch that timed out or failed, and one of them has stored, the key has
\* an entry.
C22_FailedFetchLeavesCacheUntouched ==
    \A c \in Calls : \A i \in 1..Len(tasks[c]) :
        (/\ tasks[c][i].outcome \in FailedFetch
         /\ \A d \in Calls : \A j \in 1..Len(tasks[d]) :
               SameCacheKey(c, i, d, j) =>
                   tasks[d][j].outcome \in {"stored", "hit"} \cup FailedFetch
         /\ \E d \in Calls : \E j \in 1..Len(tasks[d]) :
               SameCacheKey(c, i, d, j) /\ tasks[d][j].outcome = "stored")
        => KeyRows(search_cache, c, i) # {}

\* C22: a task whose fetch times out or fails inserts nothing: it never held a
\* fetched list, the step in which the deadline expires or the source raises
\* leaves every row as it was, and a row is only ever inserted by a task whose
\* fetch returned in time; the one change such a task can have made is the
\* DELETE issued by its own cache read, which removes rows of its own key only.
C22_FailedFetchInsertsNothing ==
    [][ /\ \A c \in Calls : \A i \in 1..Len(tasks'[c]) :
             tasks'[c][i].outcome \in FailedFetch =>
                 /\ tasks'[c][i].fetched = None
                 /\ tasks'[c][i].results = <<>>
        /\ \A c \in Calls : \A i \in 1..Len(tasks[c]) :
             (tasks[c][i].pc = "search" /\ tasks'[c][i].outcome \in FailedFetch) =>
                 search_cache' = search_cache
        /\ (search_cache' # search_cache) =>
             \E c \in Calls : \E i \in 1..Len(tasks[c]) :
                 \/ /\ tasks[c][i].pc = "cache_set"
                    /\ tasks'[c][i].outcome = "stored"
                    /\ tasks[c][i].fetched # None
                 \/ /\ tasks[c][i].pc = "cache_del"
                    /\ tasks'[c][i].pc = "search"
                    /\ RemovesOwnKeyOnly(c, i) ]_vars

\* a fetch has timed out in a task of a later request, made after the TTL of
\* the entry an earlier request had stored, and that entry is gone
C22_Witness ==
    \E c \in Calls : \E i \in 1..Len(tasks[c]) :
        /\ tasks[c][i].outcome = "timeout"
        /\ now > CACHE_TTL_SECONDS
        /\ KeyRows(search_cache, c, i) = {}
        /\ \E d \in Calls : \E j \in 1..Len(tasks[d]) :
              /\ d < c
              /\ tasks[d][j].outcome = "stored"
              /\ StoreKey(tasks[d][j].key) = StoreKey(tasks[c][i].key)

(***************************************************************************)
(* Rule B (search.py lines 65-76)                                          *)
(***************************************************************************)
\* every keyword of q is a whole word of the name
PassesRuleA(name, q) == \A kw \in ExpectedKeywords(q) : kw \in NameWords(name)

\* the number of significant words of the name that contain, or are contained
\* in, some keyword of q
MatchedWords(name, q) ==
    LET words == _extract_words(name)
    IN  Cardinality({ n \in 1..Len(words) :
            \E kw \in ExpectedKeywords(q) : Contains(words[n], kw) \/ Contains(kw, words[n]) })

Occurrences(x, s) == Cardinality({n \in 1..Len(s) : s[n] = x})

KeywordRiz == <<"r", "i", "z">>

\* C24: the results of a returned call are exactly the relevant products of
\* the lists its tasks supplied, each as often as it was supplied: every result
\* is relevant for the call's query (its name has the word "riz"), none is
\* added or duplicated, none that is relevant is missing; every cache row holds
\* a list as a source returned it, unfiltered, and so does every cache hit.
C24_ResultsAreTheRelevantSupplied ==
    /\ \A row \in search_cache :
          \E l \in ListsOfStore(row.store) : row.results_json = JsonDumps(l)
    /\ \A c \in Calls : \A i \in 1..Len(tasks[c]) :
          tasks[c][i].outcome = "hit" =>
              tasks[c][i].results \in ListsOfStore(StoreKey(tasks[c][i].key))
    /\ \A c \in Calls :
          (calls[c].status = "returned" /\ tasks[c] # <<>>) =>
              LET in  == ConcatResults(tasks[c])
                  out == calls[c].response.results
              IN  /\ \A a \in 1..Len(out) :
                        /\ _is_relevant(out[a], calls[c].query)
                        /\ KeywordRiz \in NameWords(out[a].name)
                        /\ Occurrences(out[a], out) = Occurrences(out[a], in)
                  /\ \A b \in 1..Len(in) :
                        KeywordRiz \in NameWords(in[b].name) => InSeq(in[b], out)

\* a call served from the cache a list holding "Lait" and returned the two
\* products named after rice
C24_Witness ==
    \E c \in Calls :
        /\ calls[c].status = "returned"
        /\ Len(tasks[c]) = 1
        /\ tasks[c][1].outcome = "hit"
        /\ \E n \in 1..Len(tasks[c][1].results) :
              tasks[c][1].results[n].name = <<"L", "a", "i", "t">>
        /\ Len(calls[c].response.results) = 2
        /\ Len(tasks[c][1].results) = 3

(***************************************************************************)
(* Cache keys within one call (search.py lines 79-97 and 122-135)          *)
(***************************************************************************)
\* requests that name several stores, one of them twice
StoreSetInputs ==
    { SearchArgs(<<"r", "i", "z">>, Some(<< <<"c", "a", "r", "r", "e", "f", "o", "u", "r">>, <<"a", "l", "d", "i">>, <<"C", "a", "r", "r", "e", "f", "o", "u", "r">> >>)),
      SearchArgs(<<"R", "i", "z", " ">>, Some(<< <<"c", "o", "u", "r", "s", "e", "s", "u">>, <<"C", "A", "R", "R", "E", "F", "O", "U", "R">>, <<"n", "o", "p", "e">> >>)) }

NextStores ==
    \/ Tick
    \/ SearchAllStart(1, StoreSetInputs)
    \/ \E i \in 1..Len(SCRAPERS) : TaskStep(1, i)
    \/ GatherRaise(1)
    \/ GatherReturn(1)

SpecStores == Init /\ [][NextStores]_vars

\* C25: the tasks of one call are for pairwise distinct scrapers, and the
\* (query, store) pairs that their SELECT, DELETE and INSERT name are pairwise
\* distinct, so no row of the cache is read or written by two tasks of the
\* same call; any two scrapers of the registry have distinct store keys.
C25_DisjointKeysWithinACall ==
    /\ \A a \in 1..Len(SCRAPERS), b \in 1..Len(SCRAPERS) :
          a < b => StoreKey(SCRAPERS[a].key) # StoreKey(SCRAPERS[b].key)
    /\ \A c \in Calls :
          Len(tasks[c]) > 1 =>
              LET query == CacheKey(calls[c].query)
                  store == [i \in 1..Len(tasks[c]) |-> StoreKey(tasks[c][i].key)]
              IN  \A i \in 1..Len(tasks[c]), j \in 1..Len(tasks[c]) :
                      i < j =>
                          /\ tasks[c][i].key # tasks[c][j].key
                          /\ <<query, store[i]>> # <<query, store[j]>>

\* a request that named Carrefour twice has run two tasks, and both have
\* written their entry
C25_Witness ==
    /\ calls[1].stores # None
    /\ Len(calls[1].stores[1]) = 3
    /\ Len(tasks[1]) = 2
    /\ \A i \in 1..Len(tasks[1]) : tasks[1][i].outcome = "stored"
    /\ \A i \in 1..Len(tasks[1]) : KeyRows(search_cache, 1, i) # {}

(***************************************************************************)
(* The connection (database.py lines 8-24)                                 *)
(***************************************************************************)
Connection == [open |-> TRUE, initialised |-> FALSE]

\* line 13, _db is not None: line 17 returns it at once
GetDbReturnsExisting(k) ==
    /\ db_calls[k].pc = "idle"
    /\ _db # None
    /\ db_calls' = [db_calls EXCEPT ![k] = [pc |-> "returned", db |-> _db]]
    /\ UNCHANGED <<now, search_cache, calls, tasks, clients, last_get, last_put,
                   _db, connections, db_close, cfgvars>>

\* lines 13-14, _db is None: aiosqlite.connect is awaited
GetDbConnect(k) ==
    /\ db_calls[k].pc = "idle"
    /\ _db = None
    /\ db_calls' = [db_calls EXCEPT ![k] = [pc |-> "connect", db |-> None]]
    /\ UNCHANGED <<now, search_cache, calls, tasks, clients, last_get, last_put,
                   _db, connections, db_close, cfgvars>>

\* lines 14-16: connect has returned a new connection, it is assigned to _db,
\* its row_factory is set and _init_tables(_db) is awaited
GetDbAssign(k) ==
    /\ db_calls[k].pc = "connect"
    /\ Len(connections) < MaxConnections
    /\ connections' = Append(connections, Connection)
    /\ _db' = Some(Len(connections) + 1)
    /\ db_calls' = [db_calls EXCEPT ![k] = [pc |-> "init_tables", db |-> Some(Len(connections) + 1)]]
    /\ UNCHANGED <<now, search_cache, calls, tasks, clients, last_get, last_put,
                   db_close, cfgvars>>

\* lines 16-17 and 27-44: _init_tables has committed on the connection it was
\* given, and get_db returns what _db holds now; on a connection closed in the
\* meantime the statements raise
GetDbInitTables(k) ==
    /\ db_calls[k].pc = "init_tables"
    /\ LET n == db_calls[k].db[1]
       IN  IF connections[n].open
           THEN /\ connections' = [connections EXCEPT ![n].initialised = TRUE]
                /\ db_calls' = [db_calls EXCEPT ![k] = [pc |-> "returned", db |-> _db]]
           ELSE /\ db_calls' = [db_calls EXCEPT ![k] = [pc |-> "raised", db |-> None]]
                /\ UNCHANGED connections
    /\ UNCHANGED <<now, search_cache, calls, tasks, clients, last_get, last_put,
                   _db, db_close, cfgvars>>

\* the caller has used what it got and is ready for its next database operation
GetDbCallerDone(k) ==
    /\ db_calls[k].pc \in {"returned", "raised"}
    /\ db_calls' = [db_calls EXCEPT ![k] = IdleDbCall]
    /\ UNCHANGED <<now, search_cache, calls, tasks, clients, last_get, last_put,
                   _db, connections, db_close, cfgvars>>

\* lines 22-23, _db is not None: _db.close() is awaited
CloseDbClose ==
    /\ db_close.pc = "idle"
    /\ _db # None
    /\ db_close' = [pc |-> "close", db |-> _db]
    /\ UNCHANGED <<now, search_cache, calls, tasks, clients, last_get, last_put,
                   _db, connections, db_calls, cfgvars>>

\* lines 23-24: the connection is closed and _db is reset
CloseDbReset ==
    /\ db_close.pc = "close"
    /\ connections' = [connections EXCEPT ![db_close.db[1]].open = FALSE]
    /\ _db' = None
    /\ db_close' = IdleDbCall
    /\ UNCHANGED <<now, search_cache, calls, tasks, clients, last_get, last_put,
                   db_calls, cfgvars>>

\* tasks that call get_db concurrently, and the shutdown hook
NextDb ==
    \/ \E k \in DbCallers : GetDbReturnsExisting(k)
    \/ \E k \in DbCallers : GetDbConnect(k)
    \/ \E k \in DbCallers : GetDbAssign(k)
    \/ \E k \in DbCallers : GetDbInitTables(k)
    \/ \E k \in DbCallers : GetDbCallerDone(k)
    \/ CloseDbClose
    \/ CloseDbReset

SpecDb == InitEmpty /\ [][NextDb]_vars

OpenConnections == {n \in 1..Len(connections) : connections[n].open}

\* C26: at any time at most one connection is open, it is the one _db holds
\* (none is left open without a reference), and the callers that have been
\* handed an open connection have all been handed the same one.
C26_AtMostOneConnection ==
    /\ Cardinality(OpenConnections) <= 1
    /\ \A n \in OpenConnections : _db = Some(n)
    /\ \A k \in DbCallers, m \in DbCallers :
          (/\ db_calls[k].pc = "returned" /\ db_calls[k].db # None
           /\ db_calls[m].pc = "returned" /\ db_calls[m].db # None
           /\ db_calls[k].db[1] \in OpenConnections
           /\ db_calls[m].db[1] \in OpenConnections) =>
              db_calls[k].db = db_calls[m].db

(***************************************************************************)
(* Lazy expiration against a concurrent put (database.py lines 47-73)      *)
(***************************************************************************)
\* C27: no step removes a live entry: a row that disappears from the cache in
\* a step is either older than the TTL or replaced by a row of the same key,
\* so an entry a put has written is still there, to be returned by the next
\* get, when a get that had read the stale entry before it finishes.
C27_LazyExpiryKeepsLiveEntries ==
    [][ \A r \in search_cache \ search_cache' :
            \/ IsStale(r, now)
            \/ \E w \in search_cache' : w.query = r.query /\ w.store = r.store ]_vars

(***************************************************************************)
(* The age of what the cache serves (database.py 47-73, search.py 93-107)  *)
(***************************************************************************)
\* the rows of the key of task i of call c whose content is the list results
RowsServing(table, c, i, results) ==
    { r \in KeyRows(table, c, i) :
        JsonDecodable(r.results_json) /\ JsonLoads(r.results_json) = results }

\* C28: an entry's created_at is the time of the store that follows the fetch
\* and is never moved afterwards: a row enters the cache only in the step in
\* which a task stores the list it has just fetched, stamped with the time of
\* that step; a hit leaves every row as it is and serves a row whose
\* created_at lies at most CACHE_TTL_SECONDS back, however many hits came
\* before.
C28_HitsDoNotRenew ==
    [][ /\ \A r \in search_cache' \ search_cache :
             /\ r.created_at = now
             /\ \E c \in Calls : \E i \in 1..Len(tasks[c]) :
                   /\ tasks[c][i].pc = "cache_set"
                   /\ tasks'[c][i].outcome = "stored"
                   /\ tasks[c][i].fetched # None
                   /\ r \in RowsServing(search_cache', c, i, tasks[c][i].fetched[1])
        /\ \A c \in Calls : \A i \in 1..Len(tasks[c]) :
             (tasks[c][i].pc = "cache_get" /\ tasks'[c][i].outcome = "hit") =>
                 /\ search_cache' = search_cache
                 /\ \E r \in RowsServing(search_cache, c, i, tasks'[c][i].results) :
                       /\ r.created_at <= now
                       /\ now - r.created_at <= CACHE_TTL_SECONDS ]_vars

\* an entry has been served, and at time CACHE_TTL_SECONDS + 1 it still carries
\* the created_at, 0 or 1, of its store
C28_Witness ==
    \E c \in Calls : \E i \in 1..Len(tasks[c]) :
        /\ tasks[c][i].outcome = "hit"
        /\ tasks[c][i].results # <<>>
        /\ now = CACHE_TTL_SECONDS + 1
        /\ \E r \in RowsServing(search_cache, c, i, tasks[c][i].results) : r.created_at <= 1

(***************************************************************************)
(* A product named exactly as the query (search.py lines 31-36 and 45-76)  *)
(***************************************************************************)
MaxQueryLen == 3

\* letters, an accented letter, a digit, the underscore, a space, punctuation
QueryChars == {"l", "a", "e_acute", "2", "_", " ", "'"}

\* the non-empty queries over QueryChars (q has min_length 1)
ExactQueries == SeqsUpTo(QueryChars, MaxQueryLen) \ {<<>>}

ExactInputs == { SearchArgs(q, Some(<< <<"a", "l", "d", "i">> >>)) : q \in ExactQueries }

\* the source lists one product, named as the query is spelled
ExactLists(query) == { AldiProducts(<< [name |-> query, price |-> None] >>) }

NextExact ==
    \/ SearchAllStart(1, ExactInputs)
    \/ RunScraperCacheGet(1, 1)
    \/ RunScraperSearchReturns(1, 1, ExactLists(calls[1].query))
    \/ RunScraperCacheSet(1, 1)
    \/ GatherReturn(1)

SpecExact == InitEmpty /\ [][NextExact]_vars

\* C29: relevance is reflexive: a product whose name is the query text itself
\* is accepted by the filter and is in the results of the call.
C29_ExactNameIsKept ==
    \A c \in Calls :
        Merged(c) =>
            \A j \in 1..Len(ConcatResults(tasks[c])) :
                ConcatResults(tasks[c])[j].name = calls[c].query =>
                    /\ _is_relevant(ConcatResults(tasks[c])[j], calls[c].query)
                    /\ Kept(c, j)

(***************************************************************************)
(* The configuration service (location.py, database.py lines 76-89)        *)
(***************************************************************************)
\* models.py lines 23-30; stores is a dict, kept in insertion order
StoreConfig(store_key, store_id, store_name) ==
    [store_key |-> store_key, store_id |-> store_id, store_name |-> store_name]

AppConfig(postal_code, stores) == [postal_code |-> postal_code, stores |-> stores]

DefaultAppConfig == AppConfig(None, <<>>)

JsonOptString(v) == IF v = None THEN JsonNull ELSE JsonString(v[1])

JsonDumpStore(e) == << JsonString(e.store_key), JsonString(e.store_id), JsonString(e.store_name) >>

\* config.model_dump_json()
ModelDumpJson(config) ==
    << JsonPunct("{"), JsonOptString(config.postal_code) >>
        \o FlatMap(JsonDumpStore, config.stores) \o << JsonPunct("}") >>

\* does AppConfig.model_validate_json(raw) succeed
ModelValidates(raw) ==
    /\ Len(raw) >= 3
    /\ (Len(raw) - 3) % 3 = 0
    /\ raw[1] = JsonPunct("{")
    /\ raw[Len(raw)] = JsonPunct("}")
    /\ raw[2].kind \in {"null", "string"}
    /\ \A n \in 3..(Len(raw) - 1) : raw[n].kind = "string"

ModelValidateJson(raw) ==
    AppConfig(IF raw[2].kind = "null" THEN None ELSE Some(raw[2].text),
              [n \in 1..((Len(raw) - 3) \div 3) |->
                  StoreConfig(raw[3 * n].text, raw[3 * n + 1].text, raw[3 * n + 2].text)])

\* get_app_config, lines 12-20, on the value get_config returned
GetAppConfig(raw) ==
    IF raw # None /\ raw[1] # <<>> /\ ModelValidates(raw[1])
    THEN ModelValidateJson(raw[1])
    ELSE DefaultAppConfig

\* config.stores[store_key] = StoreConfig(...)
SetStore(stores, e) ==
    IF \E n \in 1..Len(stores) : stores[n].store_key = e.store_key
    THEN [n \in 1..Len(stores) |-> IF stores[n].store_key = e.store_key THEN e ELSE stores[n]]
    ELSE Append(stores, e)

PostalCodes == { <<"7", "5">>, <<"6", "9">> }

StoreConfigs ==
    { StoreConfig(<<"a", "l", "d", "i">>, <<"1">>, <<"A", "l", "d", "i">>),
      StoreConfig(<<"c", "a", "r", "r", "e", "f", "o", "u", "r">>, <<"2">>, <<"C", "i", "t", "y">>) }

\* what the table holds when the process starts
StoredConfigs ==
    { None,
      Some(ModelDumpJson(AppConfig(None,
              << StoreConfig(<<"a", "l", "d", "i">>, <<"7">>, <<"A", "l", "d", "i">>) >>))),
      Some(ModelDumpJson(AppConfig(Some(<<"1", "3">>),
              << StoreConfig(<<"c", "a", "r", "r", "e", "f", "o", "u", "r">>, <<"9">>, <<"M", "a", "r", "k", "e", "t">>) >>))) }

InitStored ==
    /\ now = 0
    /\ search_cache = {}
    /\ calls = [c \in Calls |-> IdleCall]
    /\ tasks = [c \in Calls |-> <<>>]
    /\ clients = [k \in Clients |-> IdleClient]
    /\ last_get = NoGet
    /\ last_put = NoPut
    /\ InitDb
    /\ app_config \in StoredConfigs
    /\ config_calls = [o \in ConfigOps |-> IdleConfigCall]

\* set_postal_code lines 30-31: the configuration is loaded and the local
\* object gets its postal code
SetPostalCodeLoad ==
    /\ config_calls["set_postal_code"].pc = "idle"
    /\ \E postal_code \in PostalCodes :
         config_calls' = [config_calls EXCEPT !["set_postal_code"] =
             [pc |-> "save", args |-> <<postal_code>>,
              config |-> Some([GetAppConfig(app_config) EXCEPT !.postal_code = Some(postal_code)])]]
    /\ UNCHANGED <<now, search_cache, calls, tasks, clients, last_get, last_put, dbvars,
                   app_config>>

\* set_store_config lines 38-39: the configuration is loaded and the local
\* object gets the store entry
SetStoreConfigLoad ==
    /\ config_calls["set_store_config"].pc = "idle"
    /\ \E e \in StoreConfigs :
         config_calls' = [config_calls EXCEPT !["set_store_config"] =
             [pc |-> "save", args |-> <<e>>,
              config |-> Some([GetAppConfig(app_config) EXCEPT
                                  !.stores = SetStore(GetAppConfig(app_config).stores, e)])]]
    /\ UNCHANGED <<now, search_cache, calls, tasks, clients, last_get, last_put, dbvars,
                   app_config>>

\* lines 32-33 and 40-41, save_app_config and set_config: the local object
\* replaces the stored value, and is returned
SaveAppConfig(o) ==
    /\ config_calls[o].pc = "save"
    /\ app_config' = Some(ModelDumpJson(config_calls[o].config[1]))
    /\ config_calls' = [config_calls EXCEPT ![o].pc = "returned"]
    /\ UNCHANGED <<now, search_cache, calls, tasks, clients, last_get, last_put, dbvars>>

\* the two updates, requested concurrently
NextConfig ==
    \/ SetPostalCodeLoad
    \/ SetStoreConfigLoad
    \/ \E o \in ConfigOps : SaveAppConfig(o)

SpecConfig == InitStored /\ [][NextConfig]_vars

\* the entry of stores under store_key, Optional
StoreEntry(config, store_key) ==
    IF \E n \in 1..Len(config.stores) : config.stores[n].store_key = store_key
    THEN Some(config.stores[CHOOSE n \in 1..Len(config.stores) : config.stores[n].store_key = store_key])
    ELSE None

StoreKeysOf(config) == {config.stores[n].store_key : n \in 1..Len(config.stores)}

\* C30: updates are not lost: once set_postal_code(p) and set_store_config(k,
\* id, name) have both returned, the stored AppConfig has postal_code = p and
\* the entry (id, name) under k; and each save changes its own field only:
\* set_postal_code leaves the stored stores as they are, set_store_config
\* leaves the stored postal code and the entries of the other stores.
C30_NoLostUpdate ==
    [][ /\ (\A o \in ConfigOps : config_calls'[o].pc = "returned") =>
             LET stored == GetAppConfig(app_config')
                 e      == config_calls'["set_store_config"].args[1]
             IN  /\ stored.postal_code = Some(config_calls'["set_postal_code"].args[1])
                 /\ StoreEntry(stored, e.store_key) = Some(e)
        /\ (config_calls'["set_postal_code"].pc # config_calls["set_postal_code"].pc
              /\ config_calls'["set_postal_code"].pc = "returned") =>
             GetAppConfig(app_config').stores = GetAppConfig(app_config).stores
        /\ (config_calls'["set_store_config"].pc # config_calls["set_store_config"].pc
              /\ config_calls'["set_store_config"].pc = "returned") =>
             LET e == config_calls["set_store_config"].args[1]
             IN  /\ GetAppConfig(app_config').postal_code = GetAppConfig(app_config).postal_code
                 /\ \A k \in (StoreKeysOf(GetAppConfig(app_config))
                                \cup StoreKeysOf(GetAppConfig(app_config'))) \ {e.store_key} :
                        StoreEntry(GetAppConfig(app_config'), k) = StoreEntry(GetAppConfig(app_config), k) ]_vars

====
